---------------------------- MODULE Spec2Model ----------------------------
(***************************************************************************)
(* Stress-minimisation layout by SGD: the distance engine, pair weighting, *)
(* learning-rate scheduler, position initialiser and the sequential and    *)
(* accelerator relaxation engines of the repository.                       *)
(*                                                                         *)
(* Floating-point numbers are modelled by exact rationals [n, d] extended  *)
(* with the IEEE special values inf, ninf and nan, and with the symbolic   *)
(* power m * b^e for the irrational values the scheduler's exp/ln produce. *)
(* Node indices are 0-based as in the source; lists are sequences.         *)
(***************************************************************************)
EXTENDS Integers, Sequences, FiniteSets, TLC

VARIABLES
    pc,           \* position of the modelled program
    graph,        \* Graph { node_size, edge_size, edge_src, edge_dst }
    dist,         \* the table returned by calc_dist_matrix
    edge_info,    \* (pairs, wmin, wmax) returned by calc_edge_info
    args,         \* arguments of the call under way
    etas,         \* the learning-rate sequence
    sgd_params,   \* SgdParams handed to the relaxation engine
    positions,    \* the position array the engine works on
    pairs,        \* the pair list the sequential engine shuffles
    iteration,    \* index of the iteration under way
    cursor,       \* index of the next pair of the sweep
    result,       \* the position array the engine returns
    backend,      \* the accelerator host under way: "metal", "wgpu" or "none"
    lock_buffer,  \* one lock flag per node (0 = free)
    workers,      \* the pair workers of the dispatch under way
    output_data_buffer,  \* the "Output" buffer of the wgpu host
    iter_start,   \* history: the positions buffer at the last dispatch
    updated,      \* history: the pair updates applied, in the order applied;
                  \* an accelerator host starts it afresh at each dispatch
    initial_positions,  \* the initial positions the Metal host returns
    grid          \* the workgroup grid of the dispatch: width, height, depth

parVars == <<backend, lock_buffer, workers, output_data_buffer, iter_start, updated,
             initial_positions, grid>>

engineVars == <<positions, pairs, iteration, cursor, result, parVars>>

vars == <<pc, graph, dist, edge_info, args, etas, sgd_params, engineVars>>

----------------------------------------------------------------------------
(* Bounds of the model *)

MaxNodes == 3
MaxEdges == 2
MaxIterations == 3

----------------------------------------------------------------------------
(* Exact rational arithmetic *)

\* "let name = value; rest": Body at the value of an expression that is
\* evaluated once
Let(value, Body(_)) == CHOOSE out \in { Body(name) : name \in {value} } : TRUE

Abs(x) == IF x < 0 THEN -x ELSE x

Euclid[a \in Nat, b \in Nat] == IF b = 0 THEN a ELSE Euclid[b, a % b]
GCD(a, b) == Euclid[a, b]

Rat(n, d) ==
    LET g == GCD(Abs(n), Abs(d))
        s == IF d < 0 THEN -1 ELSE 1
    IN  [k |-> "fin", n |-> s * (n \div g), d |-> s * (d \div g)]

Int2F(i) == [k |-> "fin", n |-> i, d |-> 1]
Zero == Int2F(0)
One == Int2F(1)
INFINITY == [k |-> "inf"]
NEG_INFINITY == [k |-> "ninf"]
NAN == [k |-> "nan"]

IsFin(x) == x.k = "fin"
IsNan(x) == x.k = "nan"

RAdd(x, y) ==
    LET g == GCD(x.d, y.d)
    IN  Rat(x.n * (y.d \div g) + y.n * (x.d \div g), x.d * (y.d \div g))
RNeg(x) == [k |-> "fin", n |-> -x.n, d |-> x.d]
RSub(x, y) == RAdd(x, RNeg(y))
RMul(x, y) ==
    LET a == Rat(x.n, y.d)
        b == Rat(y.n, x.d)
    IN  [k |-> "fin", n |-> a.n * b.n, d |-> a.d * b.d]
RInv(x) == Rat(x.d, x.n)
RDiv(x, y) == RMul(x, RInv(y))
RLt(x, y) == x.n * y.d < y.n * x.d
RLe(x, y) == x.n * y.d <= y.n * x.d
RSign(x) == IF x.n > 0 THEN 1 ELSE IF x.n < 0 THEN -1 ELSE 0

----------------------------------------------------------------------------
(* IEEE-754 arithmetic on the extended values (f64 operators of the source).*)
(* A value is a rational (k = "fin"), inf, ninf, nan, or the real number    *)
(* m * b^e (k = "pow") with rationals m # 0, b > 0, b # 1 and 0 < e < 1.     *)

IsPow(x) == x.k = "pow"
IsReal(x) == IsFin(x) \/ IsPow(x)

\* x as m * b^e
Mant(x) == IF IsPow(x) THEN x.m ELSE x
Expo(x) == IF IsPow(x) THEN x.e ELSE Zero

RECURSIVE RPow(_, _)
RPow(b, i) ==
    IF i = 0 THEN One
    ELSE IF i < 0 THEN RPow(RInv(b), -i)
    ELSE RMul(b, RPow(b, i - 1))

\* m * b^e in normal form: the integer part of e goes into m
MkPow(m, b, e) ==
    IF m.n = 0 THEN Zero
    ELSE IF b = One THEN m
    ELSE LET fl == e.n \div e.d
             fr == RSub(e, Int2F(fl))
             m2 == RMul(m, RPow(b, fl))
         IN  IF fr.n = 0 THEN m2
             ELSE [k |-> "pow", m |-> m2, b |-> b, e |-> fr]

\* sign of a non-nan value: -1, 0 or 1
FSign(x) ==
    CASE x.k = "fin" -> RSign(x)
      [] x.k = "pow" -> RSign(x.m)
      [] x.k = "inf" -> 1
      [] x.k = "ninf" -> -1

FSigned(s) == IF s > 0 THEN INFINITY ELSE NEG_INFINITY

\* x * y
FMul(x, y) ==
    IF IsNan(x) \/ IsNan(y) THEN NAN
    ELSE IF IsFin(x) /\ IsFin(y) THEN RMul(x, y)
    ELSE IF IsReal(x) /\ IsReal(y)
         THEN IF FSign(x) = 0 \/ FSign(y) = 0 THEN Zero
              ELSE MkPow(RMul(Mant(x), Mant(y)),
                         IF IsPow(x) THEN x.b ELSE y.b,
                         RAdd(Expo(x), Expo(y)))
    ELSE IF FSign(x) = 0 \/ FSign(y) = 0 THEN NAN
    ELSE FSigned(FSign(x) * FSign(y))

\* x / y  (zeros are positive zeros: every zero of the program is a +0.0)
FDiv(x, y) ==
    IF IsNan(x) \/ IsNan(y) THEN NAN
    ELSE IF IsReal(x) /\ IsReal(y)
         THEN IF FSign(y) = 0
              THEN IF FSign(x) = 0 THEN NAN ELSE FSigned(FSign(x))
              ELSE IF IsFin(x) /\ IsFin(y) THEN RDiv(x, y)
              ELSE IF FSign(x) = 0 THEN Zero
              ELSE MkPow(RDiv(Mant(x), Mant(y)),
                         IF IsPow(x) THEN x.b ELSE y.b,
                         RSub(Expo(x), Expo(y)))
    ELSE IF IsReal(y) THEN FSigned(FSign(x) * (IF FSign(y) < 0 THEN -1 ELSE 1))
    ELSE IF IsReal(x) THEN Zero
    ELSE NAN

\* x + y and x - y on rationals and the special values
FAdd(x, y) ==
    IF IsNan(x) \/ IsNan(y) THEN NAN
    ELSE IF IsFin(x) /\ IsFin(y) THEN RAdd(x, y)
    ELSE IF IsFin(x) THEN y
    ELSE IF IsFin(y) THEN x
    ELSE IF x = y THEN x ELSE NAN
FNeg(x) ==
    CASE x.k = "fin" -> RNeg(x)
      [] x.k = "inf" -> NEG_INFINITY
      [] x.k = "ninf" -> INFINITY
      [] x.k = "nan" -> NAN
FSub(x, y) == FAdd(x, FNeg(y))

\* m * b^(p/r) < 1 for positive m, decided by m^r * b^p < 1
PowLtOne(q) == RLt(RMul(RPow(q.m, q.e.d), RPow(q.b, q.e.n)), One)

\* x < y and x <= y; false when either is nan
FLt(x, y) ==
    IF IsNan(x) \/ IsNan(y) THEN FALSE
    ELSE IF IsFin(x) /\ IsFin(y) THEN RLt(x, y)
    ELSE IF IsReal(x) /\ IsReal(y)
         THEN IF FSign(x) # FSign(y) THEN FSign(x) < FSign(y)
              ELSE LET q == IF FSign(x) > 0 THEN FDiv(x, y) ELSE FDiv(y, x)
                   IN  IF IsFin(q) THEN RLt(q, One) ELSE PowLtOne(q)
    ELSE IF x = y THEN FALSE
    ELSE x.k = "ninf" \/ y.k = "inf"
FEq(x, y) == ~ IsNan(x) /\ ~ IsNan(y) /\ ~ FLt(x, y) /\ ~ FLt(y, x)
FLe(x, y) == FEq(x, y) \/ FLt(x, y)

\* f64::min and f64::max: the other operand when one is nan
FMin(x, y) == IF IsNan(x) THEN y ELSE IF IsNan(y) THEN x ELSE IF FLt(y, x) THEN y ELSE x
FMax(x, y) == IF IsNan(x) THEN y ELSE IF IsNan(y) THEN x ELSE IF FLt(x, y) THEN y ELSE x

\* f64::ln: the logarithm c * ln(b) of a rational b is kept symbolic
\* (k = "log"); ln(1) = 0
FLn(x) ==
    CASE x.k = "nan" -> NAN
      [] x.k = "inf" -> INFINITY
      [] x.k = "ninf" -> NAN
      [] x.k = "fin" ->
            IF x.n < 0 THEN NAN
            ELSE IF x.n = 0 THEN NEG_INFINITY
            ELSE IF x = One THEN Zero
            ELSE [k |-> "log", c |-> One, b |-> x]

\* sign of a logarithm or special value
LSign(l) ==
    CASE l.k = "log" -> RSign(l.c) * (IF RLt(One, l.b) THEN 1 ELSE -1)
      [] l.k = "fin" -> RSign(l)
      [] l.k = "inf" -> 1
      [] l.k = "ninf" -> -1

\* l / y for an integer-valued y >= 0
LDiv(l, y) ==
    IF IsNan(l) THEN NAN
    ELSE IF y.n = 0
         THEN IF LSign(l) = 0 THEN NAN ELSE FSigned(LSign(l))
    ELSE IF l.k = "log" THEN [l EXCEPT !.c = RDiv(@, y)]
    ELSE IF l.k = "fin" THEN RDiv(l, y)
    ELSE l

\* -l
LNeg(l) ==
    IF l.k = "log" THEN [l EXCEPT !.c = RNeg(@)] ELSE FNeg(l)

\* l * t for an integer-valued t >= 0
LMul(l, t) ==
    IF IsNan(l) THEN NAN
    ELSE IF t.n = 0
         THEN IF l.k \in {"inf", "ninf"} THEN NAN ELSE Zero
    ELSE IF l.k = "log" THEN [l EXCEPT !.c = RMul(@, t)]
    ELSE IF l.k = "fin" THEN RMul(l, t)
    ELSE l

\* f64::exp of a logarithm: exp(c * ln(b)) = b^c
FExp(l) ==
    CASE l.k = "nan" -> NAN
      [] l.k = "inf" -> INFINITY
      [] l.k = "ninf" -> Zero
      [] l.k = "log" -> MkPow(One, l.b, l.c)
      [] l = Zero -> One

----------------------------------------------------------------------------
(* Graph and the distance engine *)

\* the sentinel of an unreachable node: the largest integer of the model
\* stands for usize::MAX
USIZE_MAX == 2147483647

Nodes(n) == 0 .. (n - 1)

\* every Graph of at most MaxNodes nodes and MaxEdges edges, self-loops,
\* duplicate edges and both edge directions included
Graphs ==
    UNION { UNION { { [node_size |-> n, edge_size |-> e, edge_src |-> s, edge_dst |-> d] :
                        s \in [1 .. e -> Nodes(n)], d \in [1 .. e -> Nodes(n)] } :
                    e \in 0 .. MaxEdges } :
            n \in 0 .. MaxNodes }

\* an adjacency with the edges pushed in the direction of the list only
RECURSIVE AdjLoop_OneWay(_, _, _)
AdjLoop_OneWay(g, i, adj) ==
    IF i > g.edge_size THEN adj
    ELSE AdjLoop_OneWay(g, i + 1, [adj EXCEPT ![g.edge_src[i]] = Append(@, g.edge_dst[i])])

\* vram-lock-native: both directions are pushed, in edge order
RECURSIVE AdjLoop(_, _, _)
AdjLoop(g, i, adj) ==
    IF i > g.edge_size THEN adj
    ELSE LET s == g.edge_src[i]
             d == g.edge_dst[i]
             a1 == [adj EXCEPT ![s] = Append(@, d)]
             a2 == [a1 EXCEPT ![d] = Append(@, s)]
         IN  AdjLoop(g, i + 1, a2)

calc_adj_matrix(g) == AdjLoop(g, 1, [v \in Nodes(g.node_size) |-> <<>>])

\* vram-lock: only (src, dst) is pushed
RECURSIVE VramLockAdjLoop(_, _, _)
VramLockAdjLoop(g, i, adj) ==
    IF i > g.edge_size THEN adj
    ELSE VramLockAdjLoop(g, i + 1,
             [adj EXCEPT ![g.edge_src[i]] = Append(@, g.edge_dst[i])])

vram_lock_calc_adj_matrix(g) ==
    VramLockAdjLoop(g, 1, [v \in Nodes(g.node_size) |-> <<>>])

\* the inner `for &u in &adj[v]` of the search from one source:
\* st = [deq, seen, row]
RECURSIVE BfsNeighbours(_, _, _, _)
BfsNeighbours(nb, j, v, st) ==
    IF j > Len(nb) THEN st
    ELSE LET u == nb[j]
         IN  IF st.seen[u] THEN BfsNeighbours(nb, j + 1, v, st)
             ELSE BfsNeighbours(nb, j + 1, v,
                      [deq |-> Append(st.deq, u),
                       seen |-> [st.seen EXCEPT ![u] = TRUE],
                       row |-> [st.row EXCEPT ![u] = st.row[v] + 1]])

\* `while let Some(v) = deq.pop_front()`
RECURSIVE BfsLoop(_, _)
BfsLoop(adj, st) ==
    IF st.deq = <<>> THEN st.row
    ELSE LET v == Head(st.deq)
         IN  BfsLoop(adj, BfsNeighbours(adj[v], 1, v, [st EXCEPT !.deq = Tail(@)]))

\* one row of the table: the search from source i
BfsFrom(adj, n, i) ==
    BfsLoop(adj, [deq |-> <<i>>,
                  seen |-> [v \in Nodes(n) |-> v = i],
                  row |-> [v \in Nodes(n) |-> IF v = i THEN 0 ELSE USIZE_MAX]])

DistOfAdj(adj) ==
    LET n == Cardinality(DOMAIN adj)
    IN  [i \in Nodes(n) |-> BfsFrom(adj, n, i)]

calc_dist_matrix(g) == DistOfAdj(calc_adj_matrix(g))

vram_lock_calc_dist_matrix(g) == DistOfAdj(vram_lock_calc_adj_matrix(g))

----------------------------------------------------------------------------
(* Pair weighting *)

\* calc_edge_info skipping only u = v, so that (u, v) and (v, u) are both kept
EdgeInfoCell_BothOrders(d, u, v, acc) ==
    IF u = v THEN acc
    ELSE IF d[u][v] = USIZE_MAX THEN acc
    ELSE LET dij == Int2F(d[u][v])
         IN  IF FLe(dij, Zero) THEN acc
             ELSE [pairs |-> Append(acc.pairs,
                                    [u |-> u, v |-> v, dij |-> dij,
                                     wij |-> FDiv(One, FMul(dij, dij))]),
                   dmin |-> FMin(acc.dmin, dij),
                   dmax |-> FMax(acc.dmax, dij)]

\* the body of the double loop of calc_edge_info for one cell (u, v):
\* acc = [pairs, dmin, dmax]
EdgeInfoCell(d, u, v, acc) ==
    IF u >= v THEN acc
    ELSE IF d[u][v] = USIZE_MAX THEN acc
    ELSE LET dij == Int2F(d[u][v])
         IN  IF FLe(dij, Zero) THEN acc
             ELSE [pairs |-> Append(acc.pairs,
                                    [u |-> u, v |-> v, dij |-> dij,
                                     wij |-> FDiv(One, FMul(dij, dij))]),
                   dmin |-> FMin(acc.dmin, dij),
                   dmax |-> FMax(acc.dmax, dij)]

RECURSIVE EdgeInfoLoop(_, _, _, _)
EdgeInfoLoop(d, u, v, acc) ==
    LET n == Cardinality(DOMAIN d)
    IN  IF u >= n THEN acc
        ELSE IF v >= n THEN EdgeInfoLoop(d, u + 1, 0, acc)
        ELSE EdgeInfoLoop(d, u, v + 1, EdgeInfoCell(d, u, v, acc))

\* the two weight bounds taken from the wrong ends of the distance range
calc_edge_info_Swapped(d) ==
    LET acc == EdgeInfoLoop(d, 0, 0, [pairs |-> <<>>, dmin |-> INFINITY, dmax |-> Zero])
    IN  [pairs |-> acc.pairs,
         wmin |-> FDiv(One, FMul(acc.dmin, acc.dmin)),
         wmax |-> FDiv(One, FMul(acc.dmax, acc.dmax))]

calc_edge_info(d) ==
    LET acc == EdgeInfoLoop(d, 0, 0, [pairs |-> <<>>, dmin |-> INFINITY, dmax |-> Zero])
    IN  [pairs |-> acc.pairs,
         wmin |-> FDiv(One, FMul(acc.dmax, acc.dmax)),
         wmax |-> FDiv(One, FMul(acc.dmin, acc.dmin))]

----------------------------------------------------------------------------
(* Specification of the distance engine and pair weighting: a Graph is     *)
(* given, either crate's calc_dist_matrix is run on it, and calc_edge_info *)
(* is run on the table of vram-lock-native.                                *)

NoEdgeInfo == [pairs |-> <<>>, wmin |-> NAN, wmax |-> NAN]
NoArgs == [iterations |-> 0, epsilon |-> NAN, center |-> FALSE]
NoParams == [etas |-> <<>>, positions |-> <<>>, pairs |-> <<>>]

\* the relaxation engine has not been called
EngineIdle ==
    /\ positions = <<>>
    /\ pairs = <<>>
    /\ iteration = 0
    /\ cursor = 0
    /\ result = <<>>
    /\ backend = "none"
    /\ lock_buffer = <<>>
    /\ workers = <<>>
    /\ output_data_buffer = <<>>
    /\ iter_start = <<>>
    /\ updated = <<>>
    /\ initial_positions = <<>>
    /\ grid = <<>>

InitGraph ==
    /\ pc = "start"
    /\ graph \in Graphs
    /\ dist = <<>>
    /\ edge_info = NoEdgeInfo
    /\ args = NoArgs
    /\ etas = <<>>
    /\ sgd_params = NoParams
    /\ EngineIdle

CalcDistMatrix ==
    /\ pc = "start"
    /\ dist' = calc_dist_matrix(graph)
    /\ pc' = "dist"
    /\ UNCHANGED <<graph, edge_info, args, etas, sgd_params, engineVars>>

VramLockCalcDistMatrix ==
    /\ pc = "start"
    /\ dist' = vram_lock_calc_dist_matrix(graph)
    /\ pc' = "vram_lock_dist"
    /\ UNCHANGED <<graph, edge_info, args, etas, sgd_params, engineVars>>

CalcEdgeInfo ==
    /\ pc = "dist"
    /\ edge_info' = calc_edge_info(dist)
    /\ pc' = "edge_info"
    /\ UNCHANGED <<graph, dist, args, etas, sgd_params, engineVars>>

NextGraph == CalcDistMatrix \/ VramLockCalcDistMatrix \/ CalcEdgeInfo

SpecGraph == InitGraph /\ [][NextGraph]_vars

----------------------------------------------------------------------------
(* Learning-rate scheduler *)

\* `tmax - 1` on usize in a build without overflow checks: 0 - 1 wraps
WrappingSub1(tmax) == IF tmax = 0 THEN USIZE_MAX ELSE tmax - 1

\* the decay rate with T instead of T - 1 intervals
DecayRate_OffByOne(tmax, eta_max, eta_min) ==
    LDiv(FLn(FDiv(eta_max, eta_min)), Int2F(tmax))

\* lamb = (eta_max / eta_min).ln() / (tmax - 1) as f64
DecayRate(tmax, eta_max, eta_min) ==
    LDiv(FLn(FDiv(eta_max, eta_min)), Int2F(WrappingSub1(tmax)))

\* the schedule with the sign of the exponent lost: exp(lamb * t)
calc_learning_rate_Growing(tmax, wmin, wmax, eps) ==
    LET eta_max == FDiv(One, wmin)
        eta_min == FDiv(eps, wmax)
        lamb == DecayRate(tmax, eta_max, eta_min)
    IN  [i \in 1 .. tmax |-> FMul(eta_max, FExp(LMul(lamb, Int2F(i - 1))))]

calc_learning_rate(tmax, wmin, wmax, eps) ==
    LET eta_max == FDiv(One, wmin)
        eta_min == FDiv(eps, wmax)
        lamb == DecayRate(tmax, eta_max, eta_min)
    IN  [i \in 1 .. tmax |-> FMul(eta_max, FExp(LMul(LNeg(lamb), Int2F(i - 1))))]

----------------------------------------------------------------------------
(* Position initialiser *)

\* the values rng.random::<f64>() is drawn from: a sample of [0, 1)
UnitSamples == {Zero, Rat(1, 2), Rat(3, 4)}

\* sum of column c of the positions, accumulated from 0.0 in index order
RECURSIVE SumColumn(_, _, _)
SumColumn(ps, c, i) ==
    IF i < 0 THEN Zero
    ELSE FAdd(SumColumn(ps, c, i - 1), ps[i][c])

\* the shift subtracts the sum instead of the mean
Centered_BySum(ps, n_nodes) ==
    LET n == Cardinality(DOMAIN ps)
        sum_x == SumColumn(ps, 1, n - 1)
        sum_y == SumColumn(ps, 2, n - 1)
    IN  [i \in DOMAIN ps |->
            <<FSub(ps[i][1], sum_x), FSub(ps[i][2], sum_y)>>]

\* the centering branch of init_positions_random
Centered(ps, n_nodes) ==
    LET n == Cardinality(DOMAIN ps)
        sum_x == SumColumn(ps, 1, n - 1)
        sum_y == SumColumn(ps, 2, n - 1)
        mean_x == FDiv(sum_x, Int2F(n_nodes))
        mean_y == FDiv(sum_y, Int2F(n_nodes))
    IN  [i \in DOMAIN ps |->
            <<FSub(ps[i][1], mean_x), FSub(ps[i][2], mean_y)>>]

\* draws: the 2 * n_nodes values the generator returns, in call order
init_positions_random(n_nodes, center, draws) ==
    LET ps == [i \in Nodes(n_nodes) |-> <<draws[2 * i + 1], draws[2 * i + 2]>>]
    IN  IF center THEN Centered(ps, n_nodes) ELSE ps

----------------------------------------------------------------------------
(* Specification of Graph::prepare_sgd_params, called as in main on a      *)
(* Graph that from_mtx built, with every iteration count up to             *)
(* MaxIterations.                                                          *)

\* from_mtx keeps the entries with row != col
GraphsFromMtx ==
    { g \in Graphs : \A i \in 1 .. g.edge_size : g.edge_src[i] # g.edge_dst[i] }

Epsilons == {One, Rat(1, 2), Rat(1, 10)}

\* two streams of the random generator
DrawStreams(n) ==
    { [j \in 1 .. 2 * n |-> IF (j * j + s) % 3 = 0 THEN Zero
                            ELSE IF (j * j + s) % 3 = 1 THEN Rat(1, 2)
                            ELSE Rat(3, 4)] : s \in 0 .. 1 }

InitPrepare ==
    /\ pc = "prepare_sgd_params"
    /\ graph \in GraphsFromMtx
    /\ args \in [iterations : 0 .. MaxIterations, epsilon : Epsilons, center : BOOLEAN]
    /\ dist = <<>>
    /\ edge_info = NoEdgeInfo
    /\ etas = <<>>
    /\ sgd_params = NoParams
    /\ EngineIdle

\* let dist = self.calc_dist_matrix();
PrepareDist ==
    /\ pc = "prepare_sgd_params"
    /\ dist' = calc_dist_matrix(graph)
    /\ pc' = "prepare_edge_info"
    /\ UNCHANGED <<graph, edge_info, args, etas, sgd_params, engineVars>>

\* let (pairs, wmin, wmax) = self.calc_edge_info(&dist);
PrepareEdgeInfo ==
    /\ pc = "prepare_edge_info"
    /\ edge_info' = calc_edge_info(dist)
    /\ pc' = "prepare_etas"
    /\ UNCHANGED <<graph, dist, args, etas, sgd_params, engineVars>>

\* let etas = calc_learning_rate(iterations, wmin, wmax, epsilon);
\* with iterations = 0 the subtraction tmax - 1 panics in a build with
\* overflow checks and wraps in a build without
PrepareEtas ==
    /\ pc = "prepare_etas"
    /\ \/ /\ args.iterations = 0
          /\ pc' = "panic"
          /\ etas' = etas
       \/ /\ etas' = calc_learning_rate(args.iterations, edge_info.wmin,
                                        edge_info.wmax, args.epsilon)
          /\ pc' = "prepare_positions"
    /\ UNCHANGED <<graph, dist, edge_info, args, sgd_params, engineVars>>

\* let positions = init_positions_random(self.node_size, center);
\* SgdParams { etas, positions, pairs }
PrepareReturn ==
    /\ pc = "prepare_positions"
    /\ \E draws \in DrawStreams(graph.node_size) :
          sgd_params' = [etas |-> etas,
                         positions |-> init_positions_random(graph.node_size,
                                                             args.center, draws),
                         pairs |-> edge_info.pairs]
    /\ pc' = "returned"
    /\ UNCHANGED <<graph, dist, edge_info, args, etas, engineVars>>

NextPrepare == PrepareDist \/ PrepareEdgeInfo \/ PrepareEtas \/ PrepareReturn

SpecPrepare == InitPrepare /\ [][NextPrepare]_vars

----------------------------------------------------------------------------
(* The pair update rule and the sequential relaxation engine *)

\* tiny = 1e-12 = 1 / TinyRootInv^2 and the nudge 1e-6 = 1 / NudgeInv
TinyRootInv == 1000000
NudgeInv == 1000000

\* x < tiny for a rational x: x.n * 10^12 < x.d, computed without the
\* product; _Never: the degenerate branch is never taken
BelowTiny_Never(x) == FALSE

BelowTiny(x) == x.n <= ((x.d - 1) \div TinyRootInv) \div TinyRootInv

ISqrt(i) == CHOOSE r \in 0 .. i : r * r = i

\* sqrt(v[0]^2 + v[1]^2) of a rational vector, computed as g/l * sqrt(a^2 + b^2)
\* for v = g/l * (a, b) with coprime integers a, b; defined when a^2 + b^2 is
\* a perfect square
norm2(v) ==
    Let((v[1].d \div GCD(v[1].d, v[2].d)) * v[2].d, LAMBDA l :
    Let(v[1].n * (l \div v[1].d), LAMBDA x :
    Let(v[2].n * (l \div v[2].d), LAMBDA y :
    Let(GCD(Abs(x), Abs(y)), LAMBDA g :
        IF g = 0 THEN Zero
        ELSE Rat(g * ISqrt((x \div g) * (x \div g) + (y \div g) * (y \div g)), l)))))

sub(a, b) == <<FSub(a[1], b[1]), FSub(a[2], b[2])>>

center_inplace(ps) ==
    IF DOMAIN ps = {} THEN ps
    ELSE LET n == Cardinality(DOMAIN ps)
             mean_x == FDiv(SumColumn(ps, 1, n - 1), Int2F(n))
             mean_y == FDiv(SumColumn(ps, 2, n - 1), Int2F(n))
         IN  [i \in DOMAIN ps |-> <<FSub(ps[i][1], mean_x), FSub(ps[i][2], mean_y)>>]

\* diff after the degenerate branch: positions[v] - positions[u], or the
\* nudge of length 1e-6 at the random angle when its norm is below tiny;
\* angle = [cos, sin] of the random angle, read in the degenerate case only
PairDiff(pu, pv, angle) ==
    Let(sub(pv, pu), LAMBDA diff :
        IF BelowTiny(norm2(diff))
        THEN <<FMul(angle.cos, Rat(1, NudgeInv)), FMul(angle.sin, Rat(1, NudgeInv))>>
        ELSE diff)

\* the move with the sign of the half-displacement reversed
PairMove_Away(pu, pv, pair, eta, angle) ==
    Let(PairDiff(pu, pv, angle), LAMBDA diff :
    Let(norm2(diff), LAMBDA nrm :
    Let(FDiv(FSub(pair.dij, nrm), Int2F(2)), LAMBDA half :
    Let(<<FDiv(diff[1], nrm), FDiv(diff[2], nrm)>>, LAMBDA unit :
    Let(<<FMul(half, unit[1]), FMul(half, unit[2])>>, LAMBDA r :
    Let(FMul(pair.wij, eta), LAMBDA w_eta :
    Let(FMin(w_eta, One), LAMBDA mu :
        <<FMul(mu, r[1]), FMul(mu, r[2])>>)))))))

\* the move with the step factor clamped at 2 instead of 1
PairMove_ClampedAtTwo(pu, pv, pair, eta, angle) ==
    Let(PairDiff(pu, pv, angle), LAMBDA diff :
    Let(norm2(diff), LAMBDA nrm :
    Let(FDiv(FSub(nrm, pair.dij), Int2F(2)), LAMBDA half :
    Let(<<FDiv(diff[1], nrm), FDiv(diff[2], nrm)>>, LAMBDA unit :
    Let(<<FMul(half, unit[1]), FMul(half, unit[2])>>, LAMBDA r :
    Let(FMul(pair.wij, eta), LAMBDA w_eta :
    Let(FMin(w_eta, Int2F(2)), LAMBDA mu :
        <<FMul(mu, r[1]), FMul(mu, r[2])>>)))))))

\* the move mu * r of one pair on the positions pu of u and pv of v
PairMove(pu, pv, pair, eta, angle) ==
    Let(PairDiff(pu, pv, angle), LAMBDA diff :
    Let(norm2(diff), LAMBDA nrm :
    Let(FDiv(FSub(nrm, pair.dij), Int2F(2)), LAMBDA half :
    Let(<<FDiv(diff[1], nrm), FDiv(diff[2], nrm)>>, LAMBDA unit :
    Let(<<FMul(half, unit[1]), FMul(half, unit[2])>>, LAMBDA r :
    Let(FMul(pair.wij, eta), LAMBDA w_eta :
    Let(FMin(w_eta, One), LAMBDA mu :
        <<FMul(mu, r[1]), FMul(mu, r[2])>>)))))))

\* only positions[u] is moved
ApplyMove_OneSided(ps, pair, m) ==
    [ps EXCEPT ![pair.u] = <<FAdd(@[1], m[1]), FAdd(@[2], m[2])>>]

\* positions[u] += mu * r; positions[v] -= mu * r, for the move m = mu * r
ApplyMove(ps, pair, m) ==
    [ps EXCEPT ![pair.u] = <<FAdd(@[1], m[1]), FAdd(@[2], m[2])>>,
               ![pair.v] = <<FSub(@[1], m[1]), FSub(@[2], m[2])>>]

\* one turn of the pair loop
PairUpdate(ps, pair, eta, angle) ==
    ApplyMove(ps, pair, PairMove(ps[pair.u], ps[pair.v], pair, eta, angle))

\* a shuffle that may repeat a record and drop another
Shuffles_WithRepeats(list) ==
    LET n == Len(list)
    IN  { [i \in 1 .. n |-> list[f[i]]] : f \in [1 .. n -> 1 .. n] }

\* the orders pairs.shuffle(&mut rng) can leave a list in
Shuffles(list) ==
    LET n == Len(list)
    IN  { [i \in 1 .. n |-> list[f[i]]] :
            f \in { h \in [1 .. n -> 1 .. n] : \A i, j \in 1 .. n : h[i] = h[j] => i = j } }

----------------------------------------------------------------------------
(* Inputs of the relaxation engines.  The exact arithmetic needs rational  *)
(* norms, so the nodes are drawn on one line of the plane and a random     *)
(* angle is drawn along it; schedules with an irrational value are left    *)
(* out.                                                                    *)

\* simple graphs with their edges listed once, in increasing order
RelaxGraphs ==
    { [node_size |-> 1, edge_size |-> 0, edge_src |-> <<>>, edge_dst |-> <<>>],
      [node_size |-> 2, edge_size |-> 1, edge_src |-> <<0>>, edge_dst |-> <<1>>],
      [node_size |-> 3, edge_size |-> 1, edge_src |-> <<1>>, edge_dst |-> <<2>>],
      [node_size |-> 3, edge_size |-> 2, edge_src |-> <<0, 1>>, edge_dst |-> <<1, 2>>] }

\* the directions of the lines the nodes are drawn on: cosine and sine
Lines == {[cos |-> Rat(3, 5), sin |-> Rat(4, 5)], [cos |-> One, sin |-> Zero]}

\* the two angles along a line
Angles(line) == {line, [cos |-> FNeg(line.cos), sin |-> FNeg(line.sin)]}

\* distances from the origin along the line
LineSamples == {Zero, Rat(1, 8), Rat(1, 2)}

\* draws of init_positions_random that put node i at t[i] * line
LineDraws(n, line) ==
    { [j \in 1 .. 2 * n |-> FMul(t[(j - 1) \div 2],
                                 IF j % 2 = 1 THEN line.cos ELSE line.sin)] :
        t \in [Nodes(n) -> LineSamples] }

\* no two nodes are drawn at the same place
Apart(n, draws) == \A i, j \in Nodes(n) : i # j => draws[2 * i + 1] # draws[2 * j + 1]

\* the arguments of prepare_sgd_params, and the line the draws lie on
RelaxArgs ==
    [iterations : 0 .. MaxIterations, epsilon : Epsilons, center : BOOLEAN, line : Lines]

RationalSchedule(e) == \A t \in 1 .. Len(e) : ~ IsPow(e[t])

----------------------------------------------------------------------------
(* Specification of the sequential execute_sgd (baseline-sgd-non-gpu).     *)
(* Its SgdParams carries the center flag; the positions handed in are the  *)
(* draws, not yet centred.                                                 *)

\* the last step of prepare_sgd_params for the sequential engine, on the
\* inputs with a rational schedule.  Coincident nodes are drawn for the
\* graphs of at most one pair, where the nudged coordinates stay in range
SeqPositions ==
    /\ pc = "prepare_positions"
    /\ backend = "none"
    /\ RationalSchedule(etas)
    /\ \E draws \in LineDraws(graph.node_size, args.line) :
          /\ Len(edge_info.pairs) > 1 => Apart(graph.node_size, draws)
          /\ sgd_params' = [etas |-> etas,
                            positions |-> init_positions_random(graph.node_size, FALSE, draws),
                            pairs |-> edge_info.pairs,
                            center |-> args.center]
    /\ pc' = "execute_sgd"
    /\ UNCHANGED <<graph, dist, edge_info, args, etas, engineVars>>

\* let mut positions = sgd_params.positions.clone();
\* let mut pairs = sgd_params.pairs.clone();
SeqClone ==
    /\ pc = "execute_sgd"
    /\ positions' = sgd_params.positions
    /\ pairs' = sgd_params.pairs
    /\ iteration' = 1
    /\ pc' = "seq_iteration"
    /\ UNCHANGED <<graph, dist, edge_info, args, etas, sgd_params, cursor, result, parVars>>

\* pairs.shuffle(&mut rng);
SeqShuffle ==
    /\ pc = "seq_iteration"
    /\ iteration <= Len(sgd_params.etas)
    /\ pairs' \in Shuffles(pairs)
    /\ cursor' = 1
    /\ pc' = "seq_pair"
    /\ UNCHANGED <<graph, dist, edge_info, args, etas, sgd_params, positions, iteration, result, parVars>>

\* one turn of `for pair in &pairs`
SeqPair ==
    /\ pc = "seq_pair"
    /\ cursor <= Len(pairs)
    /\ \E angle \in Angles(args.line) :
          positions' = PairUpdate(positions, pairs[cursor], sgd_params.etas[iteration], angle)
    /\ updated' = Append(updated, [pair |-> pairs[cursor], eta |-> sgd_params.etas[iteration]])
    /\ cursor' = cursor + 1
    /\ UNCHANGED <<pc, graph, dist, edge_info, args, etas, sgd_params, pairs, iteration, result,
                   backend, grid, lock_buffer, workers, output_data_buffer, iter_start,
                   initial_positions>>

\* println!("Iteration: {}", iteration + 1);
SeqEndSweep ==
    /\ pc = "seq_pair"
    /\ cursor > Len(pairs)
    /\ iteration' = iteration + 1
    /\ pc' = "seq_iteration"
    /\ UNCHANGED <<graph, dist, edge_info, args, etas, sgd_params, positions, pairs, cursor, result, parVars>>

\* if sgd_params.center { center_inplace(&mut positions); }  positions
SeqReturn ==
    /\ pc = "seq_iteration"
    /\ iteration > Len(sgd_params.etas)
    /\ result' = IF sgd_params.center THEN center_inplace(positions) ELSE positions
    /\ pc' = "seq_returned"
    /\ UNCHANGED <<graph, dist, edge_info, args, etas, sgd_params, positions, pairs, iteration, cursor, parVars>>

----------------------------------------------------------------------------
(* Narrowing of an f64 to an f32: 24 significant bits, round to nearest,   *)
(* ties to even.  The exponent range is not modelled; the values narrowed  *)
(* lie well inside it.                                                     *)

F32FractionBits == 23

RECURSIVE Pow2(_)
Pow2(k) == IF k = 0 THEN 1 ELSE 2 * Pow2(k - 1)

\* a / d = (a' / d') * 2^e with d' <= a' < 2 * d'
RECURSIVE F32Scale(_, _, _)
F32Scale(a, d, e) ==
    IF a < d THEN F32Scale(2 * a, d, e - 1)
    ELSE IF a >= 2 * d THEN F32Scale(a, 2 * d, e + 1)
    ELSE [a |-> a, d |-> d, e |-> e]

\* long division: m holds the leading 1 and the first i fraction bits of
\* a' / d', r the remainder
RECURSIVE F32Bits(_, _, _, _)
F32Bits(r, d, m, i) ==
    IF i = F32FractionBits THEN [m |-> m, r |-> r]
    ELSE IF 2 * r >= d THEN F32Bits(2 * r - d, d, 2 * m + 1, i + 1)
    ELSE F32Bits(2 * r, d, 2 * m, i + 1)

\* m * 2^k as a rational
RECURSIVE F32Value(_, _)
F32Value(m, k) ==
    IF k >= 0 THEN Int2F(m * Pow2(k))
    ELSE IF m % 2 = 0 THEN F32Value(m \div 2, k + 1)
    ELSE Rat(m, Pow2(-k))

as_f32(x) ==
    IF ~ IsFin(x) \/ x = Zero THEN x
    ELSE LET sc == F32Scale(Abs(x.n), x.d, 0)
             q == F32Bits(sc.a - sc.d, sc.d, 1, 0)
             m == IF 2 * q.r > sc.d \/ (2 * q.r = sc.d /\ q.m % 2 = 1)
                  THEN q.m + 1 ELSE q.m
             v == F32Value(m, sc.e - F32FractionBits)
         IN  IF x.n < 0 THEN RNeg(v) ELSE v

\* gpu_etas, positions_flat and gpu_pairs of the Metal host (_Swapped: the
\* two node indices of each record exchanged)
NarrowEtas(e) == [t \in DOMAIN e |-> as_f32(e[t])]
NarrowPositions(ps) == [i \in DOMAIN ps |-> <<as_f32(ps[i][1]), as_f32(ps[i][2])>>]
NarrowPairs_Swapped(list) ==
    [i \in DOMAIN list |-> [u |-> list[i].v, v |-> list[i].u,
                            dij |-> as_f32(list[i].dij), wij |-> as_f32(list[i].wij)]]

NarrowPairs(list) ==
    [i \in DOMAIN list |-> [u |-> list[i].u, v |-> list[i].v,
                            dij |-> as_f32(list[i].dij), wij |-> as_f32(list[i].wij)]]

\* every value handed over is an f32 already
F32Exact(params) ==
    /\ NarrowEtas(params.etas) = params.etas
    /\ NarrowPositions(params.positions) = params.positions
    /\ NarrowPairs(params.pairs) = params.pairs

----------------------------------------------------------------------------
(* The accelerator hosts: MetalContext::execute_sgd (vram-lock-native) and *)
(* GpuContext::setup_compute_pipeline / execute_compute_pipeline           *)
(* (vram-lock), and the pair workers they dispatch.  The worker follows    *)
(* the locking protocol of the parallel mode: lock u, lock v, re-read,     *)
(* update, write, release v, release u.                                    *)

\* the last step of prepare_sgd_params for an accelerator host, on the
\* inputs with a rational schedule.  Values that an f32 does not hold are
\* handed over for one pair of nodes apart on the horizontal line, where the
\* narrowed coordinates stay in range
GpuPositions ==
    /\ pc = "prepare_positions"
    /\ backend \in {"metal", "wgpu"}
    /\ RationalSchedule(etas)
    /\ \E draws \in LineDraws(graph.node_size, args.line) :
          /\ Len(edge_info.pairs) > 1 => Apart(graph.node_size, draws)
          /\ sgd_params' = [etas |-> etas,
                            positions |-> init_positions_random(graph.node_size,
                                                                args.center, draws),
                            pairs |-> edge_info.pairs]
          /\ \/ F32Exact(sgd_params')
             \/ /\ args.line.sin = Zero
                /\ Len(edge_info.pairs) = 1
                /\ Apart(graph.node_size, draws)
    /\ pc' = "gpu_setup"
    /\ UNCHANGED <<graph, dist, edge_info, args, etas, engineVars>>

\* a lock buffer with every flag set
NewLockBuffer_Held(n) == [i \in Nodes(n) |-> 1]

\* a lock buffer one flag short
NewLockBuffer_Short(n) == [i \in Nodes(n - 1) |-> 0]

\* let locks: Vec<u32> = vec![0; node_size];
NewLockBuffer(n) == [i \in Nodes(n) |-> 0]

\* a buffer created without contents reads as zeros
ZeroedBuffer(n) == [i \in Nodes(n) |-> <<Zero, Zero>>]

\* the buffers of MetalContext::execute_sgd
MetalSetup ==
    /\ pc = "gpu_setup"
    /\ backend = "metal"
    /\ etas' = NarrowEtas(sgd_params.etas)
    /\ positions' = NarrowPositions(sgd_params.positions)
    /\ initial_positions' = positions'
    /\ pairs' = NarrowPairs(sgd_params.pairs)
    /\ lock_buffer' = NewLockBuffer(graph.node_size)
    /\ iteration' = 1
    /\ pc' = "gpu_iteration"
    /\ UNCHANGED <<graph, dist, edge_info, args, sgd_params, cursor, result, backend, grid,
                   workers, output_data_buffer, iter_start, updated>>

\* the buffers of GpuContext::setup_compute_pipeline; the lock buffer has
\* params.positions.len() flags
WgpuSetup ==
    /\ pc = "gpu_setup"
    /\ backend = "wgpu"
    /\ etas' = sgd_params.etas
    /\ positions' = sgd_params.positions
    /\ pairs' = sgd_params.pairs
    /\ output_data_buffer' = ZeroedBuffer(Cardinality(DOMAIN sgd_params.positions))
    /\ lock_buffer' = NewLockBuffer(Cardinality(DOMAIN sgd_params.positions))
    /\ iteration' = 1
    /\ pc' = "gpu_iteration"
    /\ UNCHANGED <<graph, dist, edge_info, args, sgd_params, cursor, result, backend, grid,
                   workers, iter_start, updated,
                   initial_positions>>

\* let max_x = 65535u64;
max_x == 65535

\* (num_pairs as u64).min(max_x)
workgroup_count_x(num_pairs) == IF num_pairs < max_x THEN num_pairs ELSE max_x

\* the rows of the grid, rounded down
workgroup_count_y_Floor(num_pairs) == num_pairs \div max_x

\* ((num_pairs as u64) + max_x - 1) / max_x
workgroup_count_y(num_pairs) == (num_pairs + max_x - 1) \div max_x

\* MTLSize { width: workgroup_count_x, height: workgroup_count_y, depth: 1 };
\* a threadgroup works on one pair
threadgroups(num_pairs) ==
    [width |-> workgroup_count_x(num_pairs), height |-> workgroup_count_y(num_pairs),
     depth |-> 1]

\* let workgroup_size = 32u32;
workgroup_size == 32

\* (p.node_size + workgroup_size - 1) / workgroup_size
workgroup_x(node_size) == (node_size + workgroup_size - 1) \div workgroup_size

\* (p.node_size + workgroup_size - 1) / workgroup_size
workgroup_y(node_size) == (node_size + workgroup_size - 1) \div workgroup_size

\* dispatch_workgroups(workgroup_x, workgroup_y, 1); a workgroup has
\* workgroup_size * workgroup_size threads, one for each cell (u, v)
workgroups(node_size) ==
    [width |-> workgroup_x(node_size), height |-> workgroup_y(node_size), depth |-> 1]

\* a worker at the start of the protocol
NewWorker(k) == [pair |-> k, pc |-> "lock_u", pu |-> <<>>, pv |-> <<>>, angle |-> args.line]

\* the grid is laid out twice over the pairs
NewWorkers_Twice ==
    [w \in 1 .. 2 * Len(pairs) |-> NewWorker(((w - 1) % Len(pairs)) + 1)]

\* one worker per pair
NewWorkers == [w \in 1 .. Len(pairs) |-> NewWorker(w)]

\* the dispatch of one iteration
Dispatch(host) ==
    /\ pc = "gpu_iteration"
    /\ backend = host
    /\ iteration <= Len(etas)
    /\ grid' = IF host = "metal" THEN threadgroups(Len(pairs))
                ELSE workgroups(graph.node_size)
    /\ workers' = NewWorkers
    /\ iter_start' = positions
    /\ updated' = <<>>
    /\ pc' = "gpu_running"
    /\ UNCHANGED <<graph, dist, edge_info, args, etas, sgd_params, positions, pairs,
                   iteration, cursor, result, backend, lock_buffer, output_data_buffer,
                   initial_positions>>

\* encoder.dispatch_thread_groups(..); command_buffer.commit();
MetalDispatch == Dispatch("metal")

\* compute_pass.dispatch_workgroups(..); self.queue.submit(..);
WgpuDispatch == Dispatch("wgpu")

\* the host resumes as soon as one worker of the dispatch has finished
Completed_Early(host) ==
    /\ pc = "gpu_running"
    /\ backend = host
    /\ \E w \in DOMAIN workers : workers[w].pc = "done"
    /\ iteration' = iteration + 1
    /\ pc' = "gpu_iteration"
    /\ UNCHANGED <<graph, dist, edge_info, args, etas, sgd_params, positions, pairs,
                   cursor, result, parVars>>

\* the host resumes when every worker of the dispatch has finished
Completed(host) ==
    /\ pc = "gpu_running"
    /\ backend = host
    /\ \A w \in DOMAIN workers : workers[w].pc = "done"
    /\ iteration' = iteration + 1
    /\ pc' = "gpu_iteration"
    /\ UNCHANGED <<graph, dist, edge_info, args, etas, sgd_params, positions, pairs,
                   cursor, result, parVars>>

\* command_buffer.wait_until_completed();
MetalWait == Completed("metal")

\* self.device.poll(wgpu::PollType::wait_indefinitely()).unwrap();
WgpuWait == Completed("wgpu")

\* the host reads back positions_buffer and returns what it read as the
\* initial positions too
MetalReadBack_BufferTwice ==
    /\ pc = "gpu_iteration"
    /\ backend = "metal"
    /\ iteration > Len(etas)
    /\ result' = positions
    /\ initial_positions' = positions
    /\ pc' = "gpu_returned"
    /\ UNCHANGED <<graph, dist, edge_info, args, etas, sgd_params, positions, pairs,
                   iteration, cursor, backend, grid, lock_buffer, workers, output_data_buffer,
                   iter_start, updated>>

\* the host reads back positions_buffer; it returns (initial_positions,
\* final_positions), the latter being result
MetalReadBack ==
    /\ pc = "gpu_iteration"
    /\ backend = "metal"
    /\ iteration > Len(etas)
    /\ result' = positions
    /\ pc' = "gpu_returned"
    /\ UNCHANGED <<graph, dist, edge_info, args, etas, sgd_params, positions, pairs,
                   iteration, cursor, parVars>>

\* the host copies output_data_buffer to download_buffer and returns it
WgpuDownload ==
    /\ pc = "gpu_iteration"
    /\ backend = "wgpu"
    /\ iteration > Len(etas)
    /\ result' = output_data_buffer
    /\ pc' = "gpu_returned"
    /\ UNCHANGED <<graph, dist, edge_info, args, etas, sgd_params, positions, pairs,
                   iteration, cursor, parVars>>


----------------------------------------------------------------------------
(* The pair worker (the compute kernel the hosts load).  A failed          *)
(* compare-and-set leaves the state as it is and is tried again, so only   *)
(* the successful one is a step.                                           *)

\* an acquisition that does not test the flag
compare_and_set_Blind(locks, node) == TRUE

\* the compare-and-set of flag `node` from 0 to 1 succeeds
compare_and_set(locks, node) == locks[node] = 0

Running(w) ==
    /\ pc = "gpu_running"
    /\ w \in DOMAIN workers

\* the pair record worker w was dispatched for
PairOf(w) == pairs[workers[w].pair]

\* the values read, moved by m, stored in the buffer
WriteBack(buffer, pair, pu, pv, move) ==
    Let(move, LAMBDA m :
        [buffer EXCEPT ![pair.u] = <<FAdd(pu[1], m[1]), FAdd(pu[2], m[2])>>,
                       ![pair.v] = <<FSub(pv[1], m[1]), FSub(pv[2], m[2])>>])

WorkerStep(w, to) == workers' = [workers EXCEPT ![w].pc = to]

WorkerLockU(w) ==
    /\ Running(w)
    /\ workers[w].pc = "lock_u"
    /\ compare_and_set(lock_buffer, PairOf(w).u)
    /\ lock_buffer' = [lock_buffer EXCEPT ![PairOf(w).u] = 1]
    /\ WorkerStep(w, "lock_v")
    /\ UNCHANGED <<pc, graph, dist, edge_info, args, etas, sgd_params, positions, pairs,
                   iteration, cursor, result, backend, grid, output_data_buffer, iter_start, updated,
                   initial_positions>>

WorkerLockV(w) ==
    /\ Running(w)
    /\ workers[w].pc = "lock_v"
    /\ compare_and_set(lock_buffer, PairOf(w).v)
    /\ lock_buffer' = [lock_buffer EXCEPT ![PairOf(w).v] = 1]
    /\ WorkerStep(w, "read")
    /\ UNCHANGED <<pc, graph, dist, edge_info, args, etas, sgd_params, positions, pairs,
                   iteration, cursor, result, backend, grid, output_data_buffer, iter_start, updated,
                   initial_positions>>

\* the worker re-reads the two positions; it draws an angle when they
\* coincide
WorkerRead(w) ==
    /\ Running(w)
    /\ workers[w].pc = "read"
    /\ LET pu == positions[PairOf(w).u]
           pv == positions[PairOf(w).v]
       IN  \E angle \in IF BelowTiny(norm2(sub(pv, pu))) THEN Angles(args.line)
                        ELSE {args.line} :
              workers' = [workers EXCEPT ![w] = [@ EXCEPT !.pc = "write", !.pu = pu,
                                                            !.pv = pv, !.angle = angle]]
    /\ UNCHANGED <<pc, graph, dist, edge_info, args, etas, sgd_params, positions, pairs,
                   iteration, cursor, result, backend, grid, lock_buffer, output_data_buffer,
                   iter_start, updated,
                   initial_positions>>

\* the update rule on the values read, written back to the buffer
WorkerWrite(w) ==
    /\ Running(w)
    /\ workers[w].pc = "write"
    /\ positions' = WriteBack(positions, PairOf(w), workers[w].pu, workers[w].pv,
                              PairMove(workers[w].pu, workers[w].pv, PairOf(w),
                                       etas[iteration], workers[w].angle))
    /\ updated' = Append(updated, [pair |-> PairOf(w), eta |-> etas[iteration]])
    /\ WorkerStep(w, "unlock_v")
    /\ UNCHANGED <<pc, graph, dist, edge_info, args, etas, sgd_params, pairs, iteration,
                   cursor, result, backend, grid, lock_buffer, output_data_buffer, iter_start,
                   initial_positions>>

WorkerUnlockV(w) ==
    /\ Running(w)
    /\ workers[w].pc = "unlock_v"
    /\ lock_buffer' = [lock_buffer EXCEPT ![PairOf(w).v] = 0]
    /\ WorkerStep(w, "unlock_u")
    /\ UNCHANGED <<pc, graph, dist, edge_info, args, etas, sgd_params, positions, pairs,
                   iteration, cursor, result, backend, grid, output_data_buffer, iter_start, updated,
                   initial_positions>>

WorkerUnlockU(w) ==
    /\ Running(w)
    /\ workers[w].pc = "unlock_u"
    /\ lock_buffer' = [lock_buffer EXCEPT ![PairOf(w).u] = 0]
    /\ WorkerStep(w, "done")
    /\ UNCHANGED <<pc, graph, dist, edge_info, args, etas, sgd_params, positions, pairs,
                   iteration, cursor, result, backend, grid, output_data_buffer, iter_start, updated,
                   initial_positions>>

\* one step of worker w
WorkerRun(w) ==
    \/ WorkerLockU(w)
    \/ WorkerLockV(w)
    \/ WorkerRead(w)
    \/ WorkerWrite(w)
    \/ WorkerUnlockV(w)
    \/ WorkerUnlockU(w)

Worker == \E w \in DOMAIN workers : WorkerRun(w)

----------------------------------------------------------------------------
(* Specification of the relaxation engines: prepare_sgd_params followed by *)
(* the sequential execute_sgd or by one of the two accelerator hosts with  *)
(* its workers.                                                            *)

\* a graph, the arguments of prepare_sgd_params and the engine to run
\* ("none": the sequential one)
InitRelax ==
    /\ pc = "prepare_sgd_params"
    /\ graph \in RelaxGraphs
    /\ args \in RelaxArgs
    /\ backend \in {"none", "metal", "wgpu"}
    /\ sgd_params = NoParams
    /\ dist = <<>>
    /\ edge_info = NoEdgeInfo
    /\ etas = <<>>
    /\ positions = <<>>
    /\ pairs = <<>>
    /\ iteration = 0
    /\ cursor = 0
    /\ result = <<>>
    /\ lock_buffer = <<>>
    /\ workers = <<>>
    /\ output_data_buffer = <<>>
    /\ iter_start = <<>>
    /\ updated = <<>>
    /\ initial_positions = <<>>
    /\ grid = <<>>

NextRelax ==
    \/ PrepareDist \/ PrepareEdgeInfo \/ PrepareEtas
    \/ SeqPositions \/ GpuPositions
    \/ SeqClone \/ SeqShuffle \/ SeqPair \/ SeqEndSweep \/ SeqReturn
    \/ MetalSetup \/ MetalDispatch \/ MetalWait \/ MetalReadBack
    \/ WgpuSetup \/ WgpuDispatch \/ WgpuWait \/ WgpuDownload
    \/ Worker

SpecRelax == InitRelax /\ [][NextRelax]_vars

\* the most workers a dispatch starts: one per pair of nodes
MaxWorkers == (MaxNodes * (MaxNodes - 1)) \div 2

\* the accelerator hosts alone, under fair scheduling: a worker that can
\* step does step (a spinning worker steps when its compare-and-set
\* succeeds), and the host resumes when the command buffer has completed
InitParallel ==
    /\ InitRelax
    /\ backend \in {"metal", "wgpu"}

NextParallel ==
    \/ PrepareDist \/ PrepareEdgeInfo \/ PrepareEtas
    \/ GpuPositions
    \/ MetalSetup \/ MetalDispatch \/ MetalWait \/ MetalReadBack
    \/ WgpuSetup \/ WgpuDispatch \/ WgpuWait \/ WgpuDownload
    \/ Worker

SpecParallelFair ==
    /\ InitParallel
    /\ [][NextParallel]_vars
    /\ \A w \in 1 .. MaxWorkers : WF_vars(WorkerRun(w))
    /\ WF_vars(MetalWait \/ WgpuWait)

----------------------------------------------------------------------------
(* Specification of calc_learning_rate alone, on weights and floors drawn  *)
(* from small sets and every iteration count up to MaxIterations.          *)

Weights == {Rat(1, 9), Rat(1, 4), Rat(1, 2), One, Int2F(2)}
Floors == {One, Rat(1, 2), Rat(1, 10)}

InitSchedule ==
    /\ pc = "calc_learning_rate"
    /\ args \in [tmax : 0 .. MaxIterations, wmin : Weights, wmax : Weights, eps : Floors]
    /\ graph = <<>>
    /\ dist = <<>>
    /\ edge_info = NoEdgeInfo
    /\ etas = <<>>
    /\ sgd_params = NoParams
    /\ EngineIdle

CalcLearningRate ==
    /\ pc = "calc_learning_rate"
    /\ \/ /\ args.tmax = 0
          /\ pc' = "panic"
          /\ etas' = etas
       \/ /\ etas' = calc_learning_rate(args.tmax, args.wmin, args.wmax, args.eps)
          /\ pc' = "etas"
    /\ UNCHANGED <<graph, dist, edge_info, args, sgd_params, engineVars>>

NextSchedule == CalcLearningRate

SpecSchedule == InitSchedule /\ [][NextSchedule]_vars

----------------------------------------------------------------------------
(* Specification of init_positions_random alone, on every node count up to *)
(* MaxNodes and every sequence of draws from UnitSamples.                  *)

InitInitializer ==
    /\ pc = "init_positions_random"
    /\ \E n \in 0 .. MaxNodes :
          args \in [n_nodes : {n}, center : BOOLEAN, draws : [1 .. 2 * n -> UnitSamples]]
    /\ graph = <<>>
    /\ dist = <<>>
    /\ edge_info = NoEdgeInfo
    /\ etas = <<>>
    /\ sgd_params = NoParams
    /\ EngineIdle

InitPositionsRandom ==
    /\ pc = "init_positions_random"
    /\ sgd_params' = [sgd_params EXCEPT
                         !.positions = init_positions_random(args.n_nodes, args.center,
                                                             args.draws)]
    /\ pc' = "positions"
    /\ UNCHANGED <<graph, dist, edge_info, args, etas, engineVars>>

NextInitializer == InitPositionsRandom

SpecInitializer == InitInitializer /\ [][NextInitializer]_vars

----------------------------------------------------------------------------
(* Properties of the distance engine and of pair weighting *)

\* the nodes joined to S by an edge taken in either direction
Neighbours(g, S) ==
    { v \in Nodes(g.node_size) :
        \E i \in 1 .. g.edge_size :
            \/ g.edge_src[i] \in S /\ g.edge_dst[i] = v
            \/ g.edge_dst[i] \in S /\ g.edge_src[i] = v }

RECURSIVE Component(_, _)
Component(g, S) ==
    LET T == S \cup Neighbours(g, S)
    IN  IF T = S THEN S ELSE Component(g, T)

SameComponent(g, u, v) == v \in Component(g, {u})

Connected(g) == \A u, v \in Nodes(g.node_size) : SameComponent(g, u, v)

\* C2: for every Graph the table of calc_dist_matrix, in either crate, is
\* symmetric and zero on the diagonal.
C2_DistSymmetric ==
    pc \in {"dist", "vram_lock_dist"} =>
        \A i, j \in Nodes(graph.node_size) :
            dist[i][j] = dist[j][i] /\ dist[i][i] = 0

\* the (u, v) cells of the table that calc_edge_info must retain
RetainedCells ==
    { c \in Nodes(graph.node_size) \X Nodes(graph.node_size) :
        /\ c[1] < c[2]
        /\ dist[c[1]][c[2]] # USIZE_MAX
        /\ dist[c[1]][c[2]] > 0 }

\* C3: the pair collection holds exactly one record (u, v, dij, wij) per
\* unordered pair u < v at finite positive distance and nothing else: all
\* n(n-1)/2 pairs, each with dij >= 1, for a connected graph, and no pair
\* across two components.
C3_PairsExact ==
    pc = "edge_info" =>
        LET P == edge_info.pairs
            n == graph.node_size
        IN  /\ { <<P[i].u, P[i].v>> : i \in 1 .. Len(P) } = RetainedCells
            /\ Len(P) = Cardinality(RetainedCells)
            /\ \A i \in 1 .. Len(P) :
                  /\ P[i].dij = Int2F(dist[P[i].u][P[i].v])
                  /\ P[i].wij = Rat(1, dist[P[i].u][P[i].v] * dist[P[i].u][P[i].v])
                  /\ SameComponent(graph, P[i].u, P[i].v)
            /\ Connected(graph) =>
                  /\ 2 * Len(P) = n * (n - 1)
                  /\ \A i \in 1 .. Len(P) : FLe(One, P[i].dij)

\* the pairs of a disconnected graph of three nodes, one of them reachable,
\* have been collected
C3_Witness ==
    /\ pc = "edge_info"
    /\ graph.node_size = 3
    /\ Len(edge_info.pairs) = 1
    /\ ~ Connected(graph)
    /\ \E u, v \in Nodes(3) : dist[u][v] = USIZE_MAX

----------------------------------------------------------------------------
(* Properties of the learning-rate scheduler *)

\* C4: for T >= 2, 0 < eps <= 1 and positive finite wmin <= wmax the
\* schedule has exactly T values, the first is 1/wmin, the last is eps/wmax
\* and all consecutive ratios are the same.
C4_GeometricSchedule ==
    (/\ pc = "etas"
     /\ args.tmax >= 2
     /\ FLe(args.wmin, args.wmax)) =>
        /\ Len(etas) = args.tmax
        /\ FEq(etas[1], FDiv(One, args.wmin))
        /\ FEq(etas[args.tmax], FDiv(args.eps, args.wmax))
        /\ \A t \in 1 .. args.tmax - 2 :
              FEq(FDiv(etas[t + 1], etas[t]), FDiv(etas[t + 2], etas[t + 1]))

\* a schedule of three values whose middle value is irrational
C4_Witness ==
    /\ pc = "etas"
    /\ args.tmax = 3
    /\ FLt(args.wmin, args.wmax)
    /\ args.eps = Rat(1, 10)
    /\ IsPow(etas[2])

StrictlyDecreasing(e) == \A t \in 1 .. Len(e) - 1 : FLt(e[t + 1], e[t])
Constant(e) == \A t \in 1 .. Len(e) - 1 : FEq(e[t + 1], e[t])

\* C5: for T >= 2 and the (wmin, wmax) of a graph with a reachable pair the
\* schedule is strictly decreasing, eps = 1 and wmin = wmax included.
C5_StrictlyDecreasing ==
    (/\ pc = "returned"
     /\ args.iterations >= 2
     /\ edge_info.pairs # <<>>) => StrictlyDecreasing(sgd_params.etas)

\* C5 as amended: the schedule is strictly decreasing unless eps = 1 and
\* wmin = wmax, and then all its values are equal.
C5_DecreasingUnlessFlat ==
    (/\ pc = "returned"
     /\ args.iterations >= 2
     /\ edge_info.pairs # <<>>) =>
        /\ Len(sgd_params.etas) = args.iterations
        /\ IF args.epsilon = One /\ edge_info.wmin = edge_info.wmax
           THEN Constant(sgd_params.etas)
           ELSE StrictlyDecreasing(sgd_params.etas)

\* both cases have been scheduled: eps = 1 on pairs of one distance, and
\* eps = 1 on pairs of two distances
C5_Witness ==
    /\ pc = "returned"
    /\ args.iterations = 3
    /\ args.epsilon = One
    /\ FLt(edge_info.wmin, edge_info.wmax)
    /\ StrictlyDecreasing(sgd_params.etas)

\* C6: an iteration count below 2 is rejected: no SgdParams is returned
\* for it.
C6_ShortScheduleRejected ==
    pc = "returned" => args.iterations >= 2

\* C7: a graph without a pair at finite positive distance is rejected before
\* scheduling: the scheduler is not called and no SgdParams is returned.
C7_EmptyPairsRejected ==
    pc \in {"prepare_positions", "returned"} => edge_info.pairs # <<>>

----------------------------------------------------------------------------
(* Properties of the position initialiser *)

\* the componentwise mean of a non-empty position array
Mean(ps, c) ==
    LET n == Cardinality(DOMAIN ps)
    IN  FDiv(SumColumn(ps, c, n - 1), Int2F(n))

ZeroMean(ps) == Mean(ps, 1) = Zero /\ Mean(ps, 2) = Zero

\* C9: init_positions_random(n, center) returns n positions; with center
\* their componentwise mean is the zero vector, without it they are the draws
\* themselves, every coordinate in [0, 1).
C9_InitialMean ==
    (pc = "positions" /\ args.n_nodes >= 1) =>
        LET P == sgd_params.positions
        IN  /\ DOMAIN P = Nodes(args.n_nodes)
            /\ args.center => ZeroMean(P)
            /\ ~ args.center =>
                  \A i \in DOMAIN P :
                     /\ P[i] = <<args.draws[2 * i + 1], args.draws[2 * i + 2]>>
                     /\ \A c \in 1 .. 2 : FLe(Zero, P[i][c]) /\ FLt(P[i][c], One)

\* three nodes drawn off-centre have been centred
C9_Witness ==
    /\ pc = "positions"
    /\ args.n_nodes = 3
    /\ args.center
    /\ args.draws = <<Zero, Rat(1, 2), Rat(3, 4), Rat(1, 2), Zero, Zero>>
    /\ sgd_params.positions[0] = <<Rat(-1, 4), Rat(1, 6)>>

----------------------------------------------------------------------------
(* Properties of the relaxation engines *)

\* the orders in which n workers can run one after the other
Orders(n) == { h \in [1 .. n -> 1 .. n] : \A i, j \in 1 .. n : h[i] = h[j] => i = j }

\* a worker dispatched for pair k
WorkerOf(k) == CHOOSE w \in DOMAIN workers : workers[w].pair = k

\* the pair updates of the workers applied one at a time, in the given order,
\* to the positions ps, each with the angle its worker drew
RECURSIVE SerialApply(_, _, _)
SerialApply(ps, order, i) ==
    IF i > Len(pairs) THEN ps
    ELSE SerialApply(PairUpdate(ps, pairs[order[i]], etas[iteration],
                                workers[WorkerOf(order[i])].angle), order, i + 1)

AtBarrier ==
    /\ pc = "gpu_running"
    /\ \A w \in DOMAIN workers : workers[w].pc = "done"

\* C1: when the workers of one iteration have all finished, the positions
\* buffer is what the pair updates give when applied one after the other,
\* each exactly once, in some order, to the buffer as it was at dispatch
C1_Serializable ==
    AtBarrier =>
        \E order \in Orders(Len(pairs)) : positions = SerialApply(iter_start, order, 1)

\* three workers, every two of them sharing a node, have finished and moved
\* the nodes
C1_Witness ==
    /\ AtBarrier
    /\ Len(pairs) = 3
    /\ \A i \in DOMAIN positions : positions[i] # iter_start[i]

C10_ReturnsWorkersBuffer == pc = "gpu_returned" => result = positions

----------------------------------------------------------------------------
(* Properties of the sequential engine *)

\* one sweep over the list in the order given, each pair drawing the angle
\* given
RECURSIVE SweepInOrder(_, _, _, _, _)
SweepInOrder(ps, list, eta, angle, i) ==
    IF i > Len(list) THEN ps
    ELSE SweepInOrder(PairUpdate(ps, list[i], eta, angle), list, eta, angle, i + 1)

\* the sweeps of the schedule e from its t-th value on
RECURSIVE SweepsInOrder(_, _, _, _, _)
SweepsInOrder(ps, list, e, angle, t) ==
    IF t > Len(e) THEN ps
    ELSE SweepsInOrder(SweepInOrder(ps, list, e[t], angle, 1), list, e, angle, t + 1)

\* what execute_sgd returns on the parameters when every shuffle leaves the
\* list as it is and every angle drawn is the given one
RunInOrder(params, angle) ==
    LET ps == SweepsInOrder(params.positions, params.pairs, params.etas, angle, 1)
    IN  IF params.center THEN center_inplace(ps) ELSE ps

Finite(ps) == \A i \in DOMAIN ps : IsFin(ps[i][1]) /\ IsFin(ps[i][2])

\* C12: in the sequential engine, whose positions start finite, the norm a
\* pair update is about to divide by is a finite number not below 1e-12
\* whatever angle is drawn, and the positions are finite after every pair
\* update and when returned
C12_DivisorAboveTiny ==
    backend = "none" =>
        /\ Finite(positions)
        /\ Finite(result)
        /\ (pc = "seq_pair" /\ cursor <= Len(pairs)) =>
              \A angle \in Angles(args.line) :
                  LET nrm == norm2(PairDiff(positions[pairs[cursor].u],
                                           positions[pairs[cursor].v], angle))
                  IN  IsFin(nrm) /\ ~ BelowTiny(nrm)

\* a run has returned that started with the two nodes of a pair at the same
\* place and moved them apart
C12_Witness ==
    /\ pc = "seq_returned"
    /\ Len(sgd_params.etas) >= 2
    /\ Finite(result)
    /\ \E i \in DOMAIN pairs :
          /\ sgd_params.positions[pairs[i].u] = sgd_params.positions[pairs[i].v]
          /\ result[pairs[i].u] # result[pairs[i].v]

\* the sequential engine on the 2-node, 1-edge graph with T = 2
TwoNodeRun ==
    /\ backend = "none"
    /\ graph = [node_size |-> 2, edge_size |-> 1, edge_src |-> <<0>>, edge_dst |-> <<1>>]
    /\ args.iterations = 2

\* | ||ps[1] - ps[0]|| - 1 |
OffTarget(ps) ==
    LET d == FSub(norm2(sub(ps[1], ps[0])), One)
    IN  IF FLt(d, Zero) THEN FNeg(d) ELSE d

\* the pair collection is the single record (0, 1, dij = 1, wij = 1)
TwoNodePairs ==
    (TwoNodeRun /\ edge_info # NoEdgeInfo) =>
        edge_info.pairs = <<[u |-> 0, v |-> 1, dij |-> One, wij |-> One]>>

\* a pair update does not move the distance of the two nodes away from 1
TwoNodeCloser ==
    (TwoNodeRun /\ pc = "seq_pair" /\ positions' # positions) =>
        FLe(OffTarget(positions'), OffTarget(positions))

\* C13 as stated: on the 2-node, 1-edge graph with T = 2 the pair collection
\* is the single record (0, 1, 1, 1), the schedule has 2 values, the second
\* smaller than the first, and no pair update moves the distance of the two
\* nodes away from 1
C13_TwoNodesDecaying ==
    /\ [](TwoNodePairs /\ ((TwoNodeRun /\ etas # <<>>) =>
                               (Len(etas) = 2 /\ FLt(etas[2], etas[1]))))
    /\ [][TwoNodeCloser]_vars

\* C13, amended: on the 2-node, 1-edge graph with T = 2 the pair collection
\* is the single record (0, 1, 1, 1), the schedule has 2 values, the second
\* smaller than the first when eps < 1 and equal to it when eps = 1, and no
\* pair update moves the distance of the two nodes away from 1
C13_TwoNodes ==
    /\ [](TwoNodePairs /\ ((TwoNodeRun /\ etas # <<>>) =>
                               /\ Len(etas) = 2
                               /\ IF args.epsilon = One THEN FEq(etas[2], etas[1])
                                  ELSE FLt(etas[2], etas[1])))
    /\ [][TwoNodeCloser]_vars

\* a run with eps < 1 has returned: two pair updates, the nodes nearer to
\* distance 1 than they started
C13_Witness ==
    /\ TwoNodeRun
    /\ pc = "seq_returned"
    /\ args.epsilon # One
    /\ Len(updated) = 2
    /\ FLt(updated[2].eta, updated[1].eta)
    /\ FLt(OffTarget(result), OffTarget(sgd_params.positions))

----------------------------------------------------------------------------
(* Properties of the locking protocol and of the accelerator hosts *)

\* the accelerator host has created its buffers
HostRunning == pc \in {"gpu_iteration", "gpu_running", "gpu_returned"}

\* worker w has taken the lock of its u, of its v, and not yet released it
HoldsU(w) == workers[w].pc \in {"lock_v", "read", "write", "unlock_v", "unlock_u"}
HoldsV(w) == workers[w].pc \in {"read", "write", "unlock_v"}

\* the workers holding the lock of a node
Holders(node) ==
    { w \in DOMAIN workers : \/ HoldsU(w) /\ PairOf(w).u = node
                             \/ HoldsV(w) /\ PairOf(w).v = node }

\* C14: the lock array has one flag per node, all free before the first
\* iteration; a flag is set exactly when one worker holds it and no flag is
\* held by two workers; a worker that reads or writes the positions of its
\* pair is the holder of the locks of both its nodes
C14_MutualExclusion ==
    HostRunning =>
        /\ DOMAIN lock_buffer = Nodes(graph.node_size)
        /\ (pc = "gpu_iteration" /\ iteration = 1) =>
              \A node \in DOMAIN lock_buffer : lock_buffer[node] = 0
        /\ \A node \in DOMAIN lock_buffer :
              /\ Cardinality(Holders(node)) <= 1
              /\ lock_buffer[node] = IF Holders(node) = {} THEN 0 ELSE 1
        /\ \A w \in DOMAIN workers :
              workers[w].pc \in {"read", "write"} =>
                  /\ Holders(PairOf(w).u) = {w}
                  /\ Holders(PairOf(w).v) = {w}

\* a worker is writing the positions of its pair while another worker waits
\* for the lock of one of the two nodes
C14_Witness ==
    /\ pc = "gpu_running"
    /\ \E w1, w2 \in DOMAIN workers :
          /\ workers[w1].pc = "write"
          /\ \/ workers[w2].pc = "lock_u" /\ PairOf(w2).u \in {PairOf(w1).u, PairOf(w1).v}
             \/ workers[w2].pc = "lock_v" /\ PairOf(w2).v \in {PairOf(w1).u, PairOf(w1).v}

\* worker w spins on the flag of a node that another worker holds
Awaited(w) == IF workers[w].pc = "lock_u" THEN PairOf(w).u ELSE PairOf(w).v
Blocked(w) ==
    /\ workers[w].pc \in {"lock_u", "lock_v"}
    /\ lock_buffer[Awaited(w)] = 1

\* a set of workers each of which waits for a lock held within the set
WaitCycle(S) ==
    /\ S # {}
    /\ \A w \in S : Blocked(w) /\ Holders(Awaited(w)) \cap S # {}

\* C15: every pair record handed to the workers has u < v; a worker that
\* holds the lock of v holds the lock of u, so a worker that holds a lock and
\* waits for another waits for the higher node index; no set of workers
\* waits in a cycle, and while a worker of the dispatch has not finished,
\* some worker can take a step
C15_LockOrder ==
    HostRunning =>
        /\ \A i \in DOMAIN pairs : pairs[i].u < pairs[i].v
        /\ \A w \in DOMAIN workers :
              /\ lock_buffer[PairOf(w).v] = 1 /\ w \in Holders(PairOf(w).v)
                    => w \in Holders(PairOf(w).u)
              /\ Blocked(w) /\ HoldsU(w) => PairOf(w).u < Awaited(w)
        /\ \A S \in SUBSET DOMAIN workers : ~ WaitCycle(S)
        /\ (pc = "gpu_running" /\ \E w \in DOMAIN workers : workers[w].pc # "done") =>
              \E w \in DOMAIN workers : workers[w].pc # "done" /\ ~ Blocked(w)

\* a worker holds the lock of its u and waits for the lock of its v, which
\* another worker holds
C15_Witness ==
    /\ pc = "gpu_running"
    /\ \E w1, w2 \in DOMAIN workers :
          /\ w1 # w2
          /\ workers[w1].pc = "lock_v"
          /\ Blocked(w1)
          /\ w2 \in Holders(PairOf(w1).v)

\* the number of updates of pair record k applied since the dispatch
UpdatesOf(k) == Cardinality({ i \in DOMAIN updated : updated[i].pair = pairs[k] })

\* C16: under fair scheduling every dispatch is followed by the host's
\* resumption with each of the pair records updated exactly once since the
\* dispatch; no record is ever updated twice within one iteration
C16_IterationTerminates ==
    /\ [](pc = "gpu_running" => \A k \in DOMAIN pairs : UpdatesOf(k) <= 1)
    /\ (pc = "gpu_running") ~>
          (pc = "gpu_iteration" /\ \A k \in DOMAIN pairs : UpdatesOf(k) = 1)

\* the host has resumed after a dispatch of three workers, of which the one
\* of the last pair was the first to apply its update
C16_Witness ==
    /\ pc = "gpu_iteration"
    /\ iteration > 1
    /\ Len(pairs) = 3
    /\ Len(updated) = 3
    /\ updated[1].pair = pairs[3]

\* every worker has finished and every node lock is free
Quiescent ==
    /\ \A w \in DOMAIN workers : workers[w].pc = "done"
    /\ \A node \in DOMAIN lock_buffer : lock_buffer[node] = 0

\* the host dispatches the workers of an iteration
Dispatches == pc = "gpu_iteration" /\ pc' = "gpu_running"

\* the host resumes after an iteration
Resumes == pc = "gpu_running" /\ pc' = "gpu_iteration"

\* C17: whenever the host is between two iterations every worker of the
\* iteration before has finished and every node lock is free; a dispatch
\* starts one worker per pair at the start of the protocol and, like the
\* host's resumption, leaves the lock array as it is (the host writes the
\* lock array at setup only); the iterations are numbered 1, 2, ... in turn
\* and the updates of an iteration use the learning rate of its number
C17_Barrier ==
    /\ [](pc = "gpu_iteration" => Quiescent)
    /\ [][Dispatches => /\ Quiescent
                         /\ lock_buffer' = lock_buffer
                         /\ iteration' = iteration
                         /\ DOMAIN workers' = DOMAIN pairs
                         /\ \A w \in DOMAIN workers' : workers'[w].pc = "lock_u"]_vars
    /\ [][Resumes => /\ iteration' = iteration + 1
                      /\ lock_buffer' = lock_buffer
                      /\ positions' = positions]_vars
    /\ [](pc = "gpu_running" =>
            /\ iteration \in DOMAIN etas
            /\ \A i \in DOMAIN updated : updated[i].eta = etas[iteration])

\* the second iteration has been dispatched on three pairs, a worker holds
\* both its locks and another one has applied its update already
C17_Witness ==
    /\ pc = "gpu_running"
    /\ iteration = 2
    /\ Len(pairs) = 3
    /\ Len(updated) = 1
    /\ \E w \in DOMAIN workers : workers[w].pc = "read"

-----------------------------------------------------------------------------
(* Properties of the sweeps of the sequential engine and of the pair       *)
(* update.                                                                 *)

\* the updates applied in sweep t, in their order, when the list has n records
SweepLog(t, n) == [i \in 1 .. n |-> updated[(t - 1) * n + i]]

\* a sweep's log updates each record of the list exactly once, at rate eta
OncePerPair(log, list, eta) ==
    /\ \A k \in DOMAIN list :
          Cardinality({ i \in DOMAIN log : log[i].pair = list[k] }) = 1
    /\ \A i \in DOMAIN log : log[i].eta = eta

\* C18: while a sweep runs, its number of updates is that of the records
\* passed, each update was made on the record of its turn in the shuffled
\* list, at the learning rate of the sweep, and no record was updated twice;
\* the sweeps before it are complete.  Every update is the pair update
\* applied to the positions as the update before left them.  At the return
\* len(etas) sweeps were made, each one updating every record of the pair
\* collection exactly once at its learning rate, len(etas) * len(pairs)
\* updates in all
C18_Sweeps ==
    /\ [](pc = "seq_pair" =>
            LET n == Len(pairs)
            IN  /\ iteration \in DOMAIN sgd_params.etas
                /\ Len(updated) = (iteration - 1) * n + (cursor - 1)
                /\ \A i \in 1 .. cursor - 1 :
                      updated[(iteration - 1) * n + i] =
                          [pair |-> pairs[i], eta |-> sgd_params.etas[iteration]]
                /\ \A i, j \in 1 .. cursor - 1 : pairs[i] = pairs[j] => i = j)
    /\ [](pc = "seq_iteration" => Len(updated) = (iteration - 1) * Len(pairs))
    /\ [][(pc = "seq_pair" /\ updated' # updated) =>
            /\ Len(updated') = Len(updated) + 1
            /\ \E angle \in Angles(args.line) :
                  positions' = PairUpdate(positions, updated'[Len(updated')].pair,
                                          updated'[Len(updated')].eta, angle)]_vars
    /\ [](pc = "seq_returned" =>
            LET n == Len(sgd_params.pairs)
            IN  /\ Len(updated) = Len(sgd_params.etas) * n
                /\ \A t \in DOMAIN sgd_params.etas :
                      OncePerPair(SweepLog(t, n), sgd_params.pairs, sgd_params.etas[t]))

\* the engine has returned from two sweeps over three pairs, made in two
\* orders of which the first is not that of the pair collection
C18_Witness ==
    /\ pc = "seq_returned"
    /\ Len(sgd_params.etas) = 2
    /\ Len(sgd_params.pairs) = 3
    /\ Len(updated) = 6
    /\ updated[1].pair # sgd_params.pairs[1]
    /\ updated[4].pair # updated[1].pair

\* the sum of the positions, by coordinate
SumOf(ps) ==
    LET n == Cardinality(DOMAIN ps)
    IN  <<SumColumn(ps, 1, n - 1), SumColumn(ps, 2, n - 1)>>

\* the step is a pair update of the sequential engine
SeqUpdates == pc = "seq_pair" /\ updated' # updated

\* C19: a pair update on the record (u, v) leaves the position of every
\* other node as it is; what positions[u] gains is the move mu * r of the
\* record and positions[v] loses the same, so the two changes add up to
\* zero; through all the updates of a run the sum of the positions stays
\* that of the positions handed in
C19_PairUpdateFrame ==
    /\ [][SeqUpdates =>
            LET done == updated'[Len(updated')]
                u == done.pair.u
                v == done.pair.v
                gain == sub(positions'[u], positions[u])
                loss == sub(positions[v], positions'[v])
            IN  /\ DOMAIN positions' = DOMAIN positions
                /\ \A i \in DOMAIN positions \ {u, v} : positions'[i] = positions[i]
                /\ gain = loss
                /\ \E angle \in Angles(args.line) :
                      gain = PairMove(positions[u], positions[v], done.pair, done.eta, angle)
                /\ SumOf(positions') = SumOf(positions)]_vars
    /\ [](pc \in {"seq_iteration", "seq_pair"} => SumOf(positions) = SumOf(sgd_params.positions))

\* an update has moved two of three nodes
C19_Witness ==
    /\ pc = "seq_pair"
    /\ Cardinality(DOMAIN positions) = 3
    /\ Len(updated) = 1
    /\ \E i, j \in DOMAIN positions :
          /\ i # j
          /\ positions[i] # sgd_params.positions[i]
          /\ positions[j] = sgd_params.positions[j]

-----------------------------------------------------------------------------
(* The table of calc_dist_matrix against the paths of the graph.           *)

\* an edge of the list joins a and b, in either direction
Joined(g, a, b) ==
    \E e \in 1 .. g.edge_size : {g.edge_src[e], g.edge_dst[e]} = {a, b}

\* the paths from i to j: node sequences whose consecutive nodes are joined
\* (a shortest path repeats no node, so at most node_size nodes are needed)
PathsBetween(g, i, j) ==
    { p \in UNION { [1 .. k -> Nodes(g.node_size)] : k \in 1 .. g.node_size } :
        /\ p[1] = i
        /\ p[Len(p)] = j
        /\ \A x \in 1 .. Len(p) - 1 : Joined(g, p[x], p[x + 1]) }

\* the number of edges on a shortest path from i to j, the sentinel when
\* there is no path
HopCount(g, i, j) ==
    LET lengths == { Len(p) - 1 : p \in PathsBetween(g, i, j) }
    IN  IF lengths = {} THEN USIZE_MAX
        ELSE CHOOSE l \in lengths : \A m \in lengths : l <= m

\* the indices of the edges up to i that are no self-loop and join no two
\* nodes an earlier edge joins
RECURSIVE FirstEdges(_, _)
FirstEdges(g, i) ==
    IF i = 0 THEN <<>>
    ELSE LET before == FirstEdges(g, i - 1)
         IN  IF \/ g.edge_src[i] = g.edge_dst[i]
                \/ \E e \in 1 .. i - 1 :
                      {g.edge_src[e], g.edge_dst[e]} = {g.edge_src[i], g.edge_dst[i]}
             THEN before
             ELSE Append(before, i)

\* the graph without its self-loops and repeated edges
Simple(g) ==
    LET kept == FirstEdges(g, g.edge_size)
    IN  [node_size |-> g.node_size,
         edge_size |-> Len(kept),
         edge_src |-> [e \in 1 .. Len(kept) |-> g.edge_src[kept[e]]],
         edge_dst |-> [e \in 1 .. Len(kept) |-> g.edge_dst[kept[e]]]]

-----------------------------------------------------------------------------
(* The weight bounds of calc_edge_info.                                    *)

\* the dij of the retained pairs
Distances(info) == { info.pairs[k].dij : k \in DOMAIN info.pairs }

\* C21: when pairs are retained, wmin is 1 / dmax^2 and wmax is 1 / dmin^2
\* for the smallest dij dmin and the largest dij dmax of the retained pairs;
\* the weight of every retained pair lies between wmin and wmax, and a
\* retained pair has the weight wmin and one the weight wmax
C21_WeightBounds ==
    (pc = "edge_info" /\ edge_info.pairs # <<>>) =>
        /\ \E dmin, dmax \in Distances(edge_info) :
              /\ \A dij \in Distances(edge_info) : FLe(dmin, dij) /\ FLe(dij, dmax)
              /\ edge_info.wmin = FDiv(One, FMul(dmax, dmax))
              /\ edge_info.wmax = FDiv(One, FMul(dmin, dmin))
        /\ \A k \in DOMAIN edge_info.pairs :
              /\ FLe(edge_info.wmin, edge_info.pairs[k].wij)
              /\ FLe(edge_info.pairs[k].wij, edge_info.wmax)
        /\ \E k \in DOMAIN edge_info.pairs : edge_info.pairs[k].wij = edge_info.wmin
        /\ \E k \in DOMAIN edge_info.pairs : edge_info.pairs[k].wij = edge_info.wmax

\* pairs at two distances are retained, so that the two bounds differ
C21_Witness ==
    /\ pc = "edge_info"
    /\ Cardinality(Distances(edge_info)) >= 2
    /\ FLt(edge_info.wmin, edge_info.wmax)

-----------------------------------------------------------------------------
(* The step factor of the pair update.                                     *)

\* let mu = (wij * eta).min(1.0);
StepFactor(pair, eta) == FMin(FMul(pair.wij, eta), One)

\* the distance of the two nodes of a pair
PairDistance(ps, pair) == norm2(sub(ps[pair.v], ps[pair.u]))

\* the finite x lies between the finite a and b, the two included: x - a
\* and b - x are not of opposite signs
Between(x, a, b) == FSign(FSub(x, a)) * FSign(FSub(b, x)) >= 0

\* C22: the step factor of every pair update of the sequential engine is
\* above 0 and at most 1; when the two nodes are not closer than tiny before
\* the update, their distance after it lies between their distance before it
\* and dij, and is dij when the step factor is 1
C22_NoOvershoot ==
    [][SeqUpdates =>
        LET done == updated'[Len(updated')]
            mu == StepFactor(done.pair, done.eta)
            before == PairDistance(positions, done.pair)
            after == PairDistance(positions', done.pair)
        IN  /\ FLt(Zero, mu)
            /\ FLe(mu, One)
            /\ ~ BelowTiny(before) =>
                  /\ Between(after, before, done.pair.dij)
                  /\ mu = One => after = done.pair.dij]_vars

\* the first update of the second sweep over three pairs had a step factor
\* below 1 and has left its pair off the target distance: with such a
\* factor the pair was off it before, and is now strictly closer to it
C22_Witness ==
    /\ pc = "seq_pair"
    /\ Len(pairs) = 3
    /\ iteration = 2
    /\ cursor = 2
    /\ LET done == updated[Len(updated)]
       IN  /\ FLt(StepFactor(done.pair, done.eta), One)
           /\ PairDistance(positions, done.pair) # done.pair.dij


----------------------------------------------------------------------------
(* The inputs of the relaxation.                                           *)

\* b holds the records of a, each as often as a does
Permutation(a, b) ==
    /\ Len(a) = Len(b)
    /\ \E f \in [DOMAIN a -> DOMAIN b] :
          /\ \A i, j \in DOMAIN a : f[i] = f[j] => i = j
          /\ \A i \in DOMAIN a : b[f[i]] = a[i]

\* the sequential execute_sgd is running
InSequential == backend = "none" /\ pc \in {"execute_sgd", "seq_iteration", "seq_pair"}

\* C23: a step of the sequential execute_sgd leaves the SgdParams it was
\* given (learning rates, initial positions, pair records) as they are, and
\* the pair collection it works on is after the step a permutation of the
\* records it was given; the Metal execute_sgd returns, next to the final
\* positions, the positions it was given narrowed to f32.
C23_InputsReadOnly ==
    /\ [][InSequential =>
            /\ sgd_params' = sgd_params
            /\ pc' # "execute_sgd" => Permutation(pairs', sgd_params.pairs)]_vars
    /\ [](pc = "gpu_returned" /\ backend = "metal" =>
            initial_positions = NarrowPositions(sgd_params.positions))

\* in its second sweep the sequential engine holds the three records in
\* another order than it was given them and has moved the nodes
C23_Witness ==
    /\ backend = "none"
    /\ pc = "seq_pair"
    /\ iteration = 2
    /\ Len(pairs) = 3
    /\ pairs # sgd_params.pairs
    /\ positions # sgd_params.positions

----------------------------------------------------------------------------
(* Specification of the dispatch grids: the grid computations of the two   *)
(* hosts on pair counts and node counts drawn from bounded sets.  The      *)
(* counts stay below 2^31 - max_x, where neither the u64 nor the u32       *)
(* arithmetic of the hosts wraps.                                          *)

\* the largest of the small pair counts
MaxGridPairs == 40

\* the largest of the small node counts
MaxGridNodes == 70

\* the most rows of max_x threadgroups among the large pair counts
MaxGridRows == 3

\* the small pair counts, and those at a multiple of max_x and next to it
PairCounts ==
    0 .. MaxGridPairs
        \cup { k * max_x + d : k \in 1 .. MaxGridRows, d \in {-1, 0, 1} }

\* the small node counts, and those at the widest grid a dispatch may have
\* per dimension (max_x workgroups) and next to it
NodeCounts ==
    0 .. MaxGridNodes \cup { max_x * workgroup_size + d : d \in {-32, -31, -1, 0} }

InitGrid ==
    /\ pc = "encode"
    /\ \/ /\ backend = "metal"
          /\ args \in [num_pairs : PairCounts]
       \/ /\ backend = "wgpu"
          /\ args \in [node_size : NodeCounts]
    /\ graph = <<>>
    /\ dist = <<>>
    /\ edge_info = NoEdgeInfo
    /\ etas = <<>>
    /\ sgd_params = NoParams
    /\ positions = <<>>
    /\ pairs = <<>>
    /\ iteration = 0
    /\ cursor = 0
    /\ result = <<>>
    /\ lock_buffer = <<>>
    /\ workers = <<>>
    /\ output_data_buffer = <<>>
    /\ iter_start = <<>>
    /\ updated = <<>>
    /\ initial_positions = <<>>
    /\ grid = <<>>

\* the grid of MetalContext::execute_sgd for num_pairs pairs
MetalGrid ==
    /\ pc = "encode"
    /\ backend = "metal"
    /\ grid' = threadgroups(args.num_pairs)
    /\ pc' = "dispatch"
    /\ UNCHANGED <<graph, dist, edge_info, args, etas, sgd_params, positions, pairs,
                   iteration, cursor, result, backend, lock_buffer, workers,
                   output_data_buffer, iter_start, updated, initial_positions>>

\* the grid of GpuContext::execute_compute_pipeline for node_size nodes
WgpuGrid ==
    /\ pc = "encode"
    /\ backend = "wgpu"
    /\ grid' = workgroups(args.node_size)
    /\ pc' = "dispatch"
    /\ UNCHANGED <<graph, dist, edge_info, args, etas, sgd_params, positions, pairs,
                   iteration, cursor, result, backend, lock_buffer, workers,
                   output_data_buffer, iter_start, updated, initial_positions>>

NextGrid == MetalGrid \/ WgpuGrid

SpecGrid == InitGrid /\ [][NextGrid]_vars

----------------------------------------------------------------------------
(* The worker units of a dispatch grid.                                    *)

\* the least q with q * b >= a
Ceil(a, b) == IF a % b = 0 THEN a \div b ELSE a \div b + 1

\* the cell (u, v) has a thread in a grid of workgroups of
\* workgroup_size * workgroup_size threads
Covers(g, u, v) == u < g.width * workgroup_size /\ v < g.height * workgroup_size

\* the node indices of the last workgroup_size nodes: a grid that has a
\* thread for each of them has one for every lower index
LastNodes(n) == { c \in n - workgroup_size .. n - 1 : c >= 0 }

\* C24: the grid of a dispatch has a worker unit for every pair.  The
\* Metal grid for P pairs is min(P, 65535) threadgroups wide and
\* ceil(P / 65535) high, at most 65535 wide, and has at least P
\* threadgroups; the wgpu grid for N nodes is ceil(N / 32) by ceil(N / 32)
\* workgroups and has a thread for every cell (u, v) with u, v < N.
C24_GridCoversPairs ==
    pc = "dispatch" =>
        /\ backend = "metal" =>
              LET P == args.num_pairs
              IN  /\ grid.width = (IF P < 65535 THEN P ELSE 65535)
                  /\ grid.height = Ceil(P, 65535)
                  /\ grid.width <= 65535
                  /\ grid.width * grid.height >= P
        /\ backend = "wgpu" =>
              LET N == args.node_size
              IN  /\ grid.width = Ceil(N, 32)
                  /\ grid.height = Ceil(N, 32)
                  /\ \A u, v \in LastNodes(N) : Covers(grid, u, v)

\* a Metal grid of more than one row whose last row is not full
C24_Witness ==
    /\ pc = "dispatch"
    /\ backend = "metal"
    /\ args.num_pairs > max_x
    /\ grid.height = 2
    /\ grid.width * grid.height > args.num_pairs

=============================================================================
